---- MODULE Spec2Model ----
(***************************************************************************)
(* A model of the gb-seven5 build orchestrator (package main).  Two       *)
(* revisions of the program are in the repository: main.go, which          *)
(* validates the layout and compiles the entry points of every argument,   *)
(* and the later revision (unnamed/part_000), which also validates the     *)
(* pages directory and runs the page generator over the template tree.     *)
(* The variable build says which revision is running.                      *)
(*                                                                         *)
(* Strings are sequences of one-character strings, so that the prefix,     *)
(* suffix and join operations of the code are computed on characters.      *)
(***************************************************************************)
EXTENDS Naturals, Sequences, FiniteSets, TLC

(***************************************************************************)
(* Bounds of the model.                                                    *)
(***************************************************************************)
\* The longest argument list (os.Args[1:]) a run is given.
MaxArgs == 2

(***************************************************************************)
(* Strings.                                                                *)
(***************************************************************************)
\* Characters in ASCII order: the order of sort.Strings in readDirNames.
Alphabet ==
    << ".", "/", "a", "b", "c", "d", "e", "g", "h", "i", "j", "l", "m", "n",
       "o", "p", "q", "r", "s", "t", "u", "v", "w", "x", "z" >>

Rank(c) == CHOOSE k \in 1..Len(Alphabet) : Alphabet[k] = c

RECURSIVE LexLess(_, _)
LexLess(s, t) ==
    IF t = << >> THEN FALSE
    ELSE IF s = << >> THEN TRUE
    ELSE IF Head(s) = Head(t) THEN LexLess(Tail(s), Tail(t))
    ELSE Rank(Head(s)) < Rank(Head(t))

\* strings.HasPrefix / HasSuffix / TrimPrefix / TrimSuffix
HasPrefix(s, prefix) ==
    /\ Len(prefix) <= Len(s)
    /\ SubSeq(s, 1, Len(prefix)) = prefix

HasSuffix(s, suffix) ==
    /\ Len(suffix) <= Len(s)
    /\ SubSeq(s, Len(s) - Len(suffix) + 1, Len(s)) = suffix

TrimPrefix(s, prefix) ==
    IF HasPrefix(s, prefix) THEN SubSeq(s, Len(prefix) + 1, Len(s)) ELSE s

TrimSuffix(s, suffix) ==
    IF HasSuffix(s, suffix) THEN SubSeq(s, 1, Len(s) - Len(suffix)) ELSE s

Sep == << "/" >>
Dot == << "." >>
DotDot == << ".", "." >>

\* The components of a path: the pieces between separators (empty pieces kept).
RECURSIVE SplitFrom(_, _, _)
SplitFrom(s, k, cur) ==
    IF k > Len(s) THEN << cur >>
    ELSE IF s[k] = "/" THEN << cur >> \o SplitFrom(s, k + 1, << >>)
    ELSE SplitFrom(s, k + 1, Append(cur, s[k]))

Split(s) == SplitFrom(s, 1, << >>)

\* strings.Join(elems, "/")
RECURSIVE JoinSep(_)
JoinSep(elems) ==
    IF elems = << >> THEN << >>
    ELSE IF Len(elems) = 1 THEN elems[1]
    ELSE elems[1] \o Sep \o JoinSep(Tail(elems))

\* The component stack of filepath.Clean: empty and "." components are dropped,
\* ".." removes the component before it (and is kept at the start of a relative
\* path, dropped at the start of a rooted one).
RECURSIVE CleanParts(_, _, _)
CleanParts(parts, rooted, out) ==
    IF parts = << >> THEN out
    ELSE LET c == Head(parts)
             rest == Tail(parts)
         IN  IF c = << >> \/ c = Dot THEN CleanParts(rest, rooted, out)
             ELSE IF c = DotDot
                  THEN IF out # << >> /\ out[Len(out)] # DotDot
                       THEN CleanParts(rest, rooted, SubSeq(out, 1, Len(out) - 1))
                       ELSE IF rooted THEN CleanParts(rest, rooted, out)
                       ELSE CleanParts(rest, rooted, Append(out, c))
                  ELSE CleanParts(rest, rooted, Append(out, c))

\* filepath.Clean
Clean(path) ==
    IF path = << >> THEN Dot
    ELSE LET rooted == path[1] = "/"
             body == JoinSep(CleanParts(Split(path), rooted, << >>))
         IN  IF rooted THEN Sep \o body
             ELSE IF body = << >> THEN Dot ELSE body

\* The non-empty elements of a list of strings.
RECURSIVE NonEmpty(_)
NonEmpty(elems) ==
    IF elems = << >> THEN << >>
    ELSE IF Head(elems) = << >> THEN NonEmpty(Tail(elems))
    ELSE << Head(elems) >> \o NonEmpty(Tail(elems))

\* A join that only concatenates with separators, without filepath.Clean.
JoinUncleaned(elems) == JoinSep(NonEmpty(elems))

\* filepath.Join: the non-empty elements, joined by separators, then cleaned.
Join(elems) ==
    IF NonEmpty(elems) = << >> THEN << >> ELSE Clean(JoinSep(NonEmpty(elems)))

\* The index of the last separator of a path, 0 when it has none.
LastSep(path) ==
    IF \E k \in 1..Len(path) : path[k] = "/"
    THEN CHOOSE k \in 1..Len(path) :
             /\ path[k] = "/"
             /\ \A j \in (k + 1)..Len(path) : path[j] # "/"
    ELSE 0

\* filepath.Dir: everything before the last separator, cleaned.
Dir(path) == Clean(SubSeq(path, 1, LastSep(path)))

\* filepath.Base of a clean path: what follows the last separator.
Base(path) == SubSeq(path, LastSep(path) + 1, Len(path))

(***************************************************************************)
(* String constants of the program.                                        *)
(***************************************************************************)
S_src == << "s", "r", "c" >>
S_client == << "c", "l", "i", "e", "n", "t" >>
S_static == << "s", "t", "a", "t", "i", "c" >>
S_en == << "e", "n" >>
S_web == << "w", "e", "b" >>
S_pages == << "p", "a", "g", "e", "s" >>
S_template == << "t", "e", "m", "p", "l", "a", "t", "e" >>
S_support == << "s", "u", "p", "p", "o", "r", "t" >>
S_vendor == << "v", "e", "n", "d", "o", "r" >>
S_go == << ".", "g", "o" >>
S_json == << ".", "j", "s", "o", "n" >>
S_html == << ".", "h", "t", "m", "l" >>

(***************************************************************************)
(* The file system the program reads.  A node is a directory entry: its    *)
(* name, whether it is a directory, whether it can be read (a directory    *)
(* listed, a file opened), its entries, and for a source file what the Go  *)
(* parser makes of it: ok is FALSE for a syntax error, decls are the       *)
(* top-level declarations (ast.File.Decls) in order; inner are the names   *)
(* declared inside a function body, which are not top-level declarations.  *)
(***************************************************************************)
NoSrc == [ok |-> FALSE, decls |-> << >>]

File(name) ==
    [name |-> name, dir |-> FALSE, readable |-> TRUE, kids |-> {}, src |-> NoSrc]

GoFile(name, src) ==
    [name |-> name, dir |-> FALSE, readable |-> TRUE, kids |-> {}, src |-> src]

Directory(name, kids) ==
    [name |-> name, dir |-> TRUE, readable |-> TRUE, kids |-> kids, src |-> NoSrc]

Unreadable(node) == [node EXCEPT !.readable = FALSE]

\* Stands for an entry that does not exist; never put in a directory.
Missing == File(<< >>)

FuncDecl(name, recv, inner) ==
    [kind |-> "FuncDecl", name |-> name, recv |-> recv, inner |-> inner]

GenDecl(name) ==
    [kind |-> "GenDecl", name |-> name, recv |-> FALSE, inner |-> {}]

\* func main() {}
MainSrc == [ok |-> TRUE, decls |-> << FuncDecl("main", FALSE, {}) >>]
\* var x = 1; func helper() { main := func() {}; main() }
UtilSrc ==
    [ok |-> TRUE, decls |-> << GenDecl("x"), FuncDecl("helper", FALSE, {"main"}) >>]
\* type T struct{}; func (t T) main() {}
MethodSrc ==
    [ok |-> TRUE, decls |-> << GenDecl("T"), FuncDecl("main", TRUE, {}) >>]
\* func Main() {}; func init() {}
CapitalSrc ==
    [ok |-> TRUE, decls |-> << FuncDecl("Main", FALSE, {}), FuncDecl("init", FALSE, {}) >>]
\* a file the parser rejects
BadSrc == [ok |-> FALSE, decls |-> << >>]

\* Names of directory entries.
N_a == << "a" >>
N_b == << "b" >>
N_d == << "d" >>
N_p == << "p" >>
N_w == << "w" >>
N_x == << "x" >>
N_m_go == << "m", ".", "g", "o" >>
N_u_go == << "u", ".", "g", "o" >>
N_t_go == << "t", ".", "g", "o" >>
N_z_go == << "z", ".", "g", "o" >>
N_x_go == << "x", ".", "g", "o" >>
N_c_go == << "c", ".", "g", "o" >>
N_a_html == << "a", ".", "h", "t", "m", "l" >>
N_a_json == << "a", ".", "j", "s", "o", "n" >>
N_b_json == << "b", ".", "j", "s", "o", "n" >>
N_p_html == << "p", ".", "h", "t", "m", "l" >>
N_p_json == << "p", ".", "j", "s", "o", "n" >>
N_q_html == << "q", ".", "h", "t", "m", "l" >>
N_q_json == << "q", ".", "j", "s", "o", "n" >>
N_s_json == << "s", ".", "j", "s", "o", "n" >>

(***************************************************************************)
(* The trees a package may hold.                                           *)
(***************************************************************************)
\* client/a/m.go has func main, client/b/u.go has none (the scenario of the spec).
ClientScenario ==
    Directory(S_client,
        { Directory(N_a, { GoFile(N_m_go, MainSrc) }),
          Directory(N_b, { GoFile(N_u_go, UtilSrc) }) })

\* Two entry points with the same file name, in different directories.
ClientTwo ==
    Directory(S_client,
        { Directory(N_d, { GoFile(N_m_go, MainSrc) }), GoFile(N_m_go, MainSrc) })

\* The only declaration named main is a method.
ClientMethod ==
    Directory(S_client, { GoFile(N_t_go, MethodSrc), GoFile(N_c_go, CapitalSrc) })

\* A file the parser rejects, met after two entry points were classified.
ClientBadSyntax ==
    Directory(S_client,
        { Directory(N_d, { GoFile(N_m_go, MainSrc) }),
          GoFile(N_m_go, MainSrc),
          GoFile(N_z_go, BadSrc) })

\* A directory whose name ends in .go.
ClientGoDir ==
    Directory(S_client,
        { GoFile(N_m_go, MainSrc), Directory(N_x_go, { GoFile(N_u_go, UtilSrc) }) })

\* A directory that cannot be listed.
ClientUnreadable ==
    Directory(S_client,
        { GoFile(N_m_go, MainSrc), Unreadable(Directory(N_w, { })) })

\* No entry point at all.
ClientNoMain == Directory(S_client, { GoFile(N_u_go, UtilSrc) })

\* static/en/web with the subdirectory x that the template tree has.
StaticTree ==
    Directory(S_static,
        { Directory(S_en, { Directory(S_web, { Directory(N_x, { }) }) }) })

\* static/en/web without any subdirectory.
StaticFlat ==
    Directory(S_static, { Directory(S_en, { Directory(S_web, { }) }) })

\* static/en exists, static/en/web does not.
StaticNoWeb == Directory(S_static, { Directory(S_en, { }) })

\* One pair, and a support directory holding a pair and an unpaired description.
TemplateGood ==
    Directory(S_template,
        { File(N_p_html), File(N_p_json),
          Directory(S_support, { File(N_q_html), File(N_q_json), File(N_s_json) }) })

\* Two pairs with the same base name in different directories, and a support
\* directory below the top level.
TemplateTwo ==
    Directory(S_template,
        { File(N_p_html), File(N_p_json),
          Directory(N_x,
              { File(N_p_html), File(N_p_json),
                Directory(S_support, { File(N_s_json) }) }) })

\* A pair, then a description file without markup, met later in the walk.
TemplateUnpaired ==
    Directory(S_template,
        { File(N_a_html), File(N_a_json), Directory(N_x, { File(N_b_json) }) })

\* A pair, and a directory that cannot be listed.
TemplateUnreadable ==
    Directory(S_template,
        { File(N_p_html), File(N_p_json), Unreadable(Directory(N_w, { })) })

TemplateEmpty == Directory(S_template, { })

PagesOf(template) == Directory(S_pages, { template } \ { Missing })

\* The directory src/<name> of a package.
Package(name, client, static, pages) ==
    Directory(name, { client, static, pages } \ { Missing })

GoodLayout ==
    [client |-> ClientScenario, static |-> StaticTree, pages |-> PagesOf(TemplateGood)]

\* The layouts of one package: the good one, every other client tree beside
\* good pages, every other pages tree beside a good client tree (two entry
\* points beside two pairs; two pairs whose second output directory does not
\* exist), and a missing output root.
Layouts ==
    << GoodLayout,
       [client |-> ClientTwo, static |-> StaticTree, pages |-> PagesOf(TemplateGood)],
       [client |-> ClientMethod, static |-> StaticTree, pages |-> PagesOf(TemplateGood)],
       [client |-> ClientBadSyntax, static |-> StaticTree,
        pages |-> PagesOf(TemplateGood)],
       [client |-> ClientGoDir, static |-> StaticTree, pages |-> PagesOf(TemplateGood)],
       [client |-> ClientUnreadable, static |-> StaticTree,
        pages |-> PagesOf(TemplateGood)],
       [client |-> ClientNoMain, static |-> StaticTree, pages |-> PagesOf(TemplateGood)],
       [client |-> Missing, static |-> StaticTree, pages |-> PagesOf(TemplateGood)],
       [client |-> ClientTwo, static |-> StaticTree, pages |-> PagesOf(TemplateTwo)],
       [client |-> ClientScenario, static |-> StaticTree,
        pages |-> PagesOf(TemplateUnpaired)],
       [client |-> ClientScenario, static |-> StaticTree,
        pages |-> PagesOf(TemplateUnreadable)],
       [client |-> ClientScenario, static |-> StaticTree,
        pages |-> PagesOf(TemplateEmpty)],
       [client |-> ClientScenario, static |-> StaticTree, pages |-> PagesOf(Missing)],
       [client |-> ClientScenario, static |-> StaticTree, pages |-> Missing],
       [client |-> ClientScenario, static |-> StaticFlat, pages |-> PagesOf(TemplateTwo)],
       [client |-> ClientScenario, static |-> StaticNoWeb,
        pages |-> PagesOf(TemplateGood)],
       [client |-> ClientScenario, static |-> Missing,
        pages |-> PagesOf(TemplateGood)] >>

\* The root directory: /p/src/a and /p/src/b.
FileSystem(la, lb) ==
    Directory(<< >>,
        { Directory(N_p,
            { Directory(S_src,
                { Package(N_a, la.client, la.static, la.pages),
                  Package(N_b, lb.client, lb.static, lb.pages) }) }) })

\* The file systems a run may find: every layout of package a beside a good
\* package b, and every other layout of package b beside a good package a.
FileSystems ==
    [k \in 1..(2 * Len(Layouts) - 1) |->
        IF k <= Len(Layouts) THEN FileSystem(Layouts[k], GoodLayout)
        ELSE FileSystem(GoodLayout, Layouts[k - Len(Layouts) + 1])]

\* The entries of a directory in the order readDirNames returns their names.
RECURSIVE SortNodes(_)
SortNodes(nodes) ==
    IF nodes = { } THEN << >>
    ELSE LET first == CHOOSE n \in nodes :
                          \A o \in nodes \ { n } : LexLess(n.name, o.name)
         IN  << first >> \o SortNodes(nodes \ { first })

\* The node a list of path components leads to from a node, Missing if none.
RECURSIVE Find(_, _)
Find(node, parts) ==
    IF parts = << >> THEN node
    ELSE IF ~ node.dir THEN Missing
    ELSE IF \E k \in node.kids : k.name = Head(parts)
         THEN Find(CHOOSE k \in node.kids : k.name = Head(parts), Tail(parts))
         ELSE Missing

\* The node at a path of file system root (relative paths start at the root
\* directory, the working directory of the run).
Lookup(root, path) == Find(root, CleanParts(Split(path), TRUE, << >>))

\* os.Stat(path) returns a nil error.
StatOK(root, path) == Lookup(root, path) # Missing

(***************************************************************************)
(* Path construction (SUPPORT FUNCS).                                      *)
(***************************************************************************)
\* A client path that is joined and not cleaned.
constructClientPackagePathUncleaned(proj, arg) ==
    JoinUncleaned(<< proj, S_src, arg, S_client >>)

constructClientPackagePath(proj, arg) == Join(<< proj, S_src, arg, S_client >>)

constructPagesPath(proj, arg) == Join(<< proj, S_src, arg, S_pages >>)

constructTemplatesPath(proj, arg) ==
    Join(<< proj, S_src, arg, S_pages, S_template >>)

constructStaticEnglishPath(proj, arg) ==
    Join(<< proj, S_src, arg, S_static, S_en, S_web >>)

validateClientPackage(root, proj, arg) ==
    StatOK(root, constructClientPackagePath(proj, arg))

validatePagesDir(root, proj, arg) ==
    StatOK(root, constructPagesPath(proj, arg))

validateStaticEnglishDir(root, proj, arg) ==
    StatOK(root, constructStaticEnglishPath(proj, arg))

\* A validation that forgets the pages directory.
validateProjectStructureNoPages(root, proj, arg) ==
    /\ validateClientPackage(root, proj, arg)
    /\ validateStaticEnglishDir(root, proj, arg)

\* validateProjectStructure returns a nil error.
validateProjectStructure(root, proj, arg) ==
    /\ validateClientPackage(root, proj, arg)
    /\ validateStaticEnglishDir(root, proj, arg)
    /\ validatePagesDir(root, proj, arg)

\* The checks main.go makes in the body of its loop: no pages directory.
validateInMain(root, proj, arg) ==
    /\ validateClientPackage(root, proj, arg)
    /\ validateStaticEnglishDir(root, proj, arg)

(***************************************************************************)
(* The directory walks.  A walk function returns the lists it has          *)
(* collected so far (acc) and what it returns to filepath.Walk (ret):      *)
(* "nil", "SkipDir", "err" (the walk's own error handed back) or "nohtml"  *)
(* (the error made for a description file without markup).                 *)
(***************************************************************************)
\* The function literal of iterateDirs; acc.a is gofiles.
iterateDirsFn(path, info, err, acc) ==
    IF err THEN [acc |-> acc, ret |-> "err"]
    ELSE IF HasSuffix(info.name, S_go)
         THEN [acc |-> [acc EXCEPT !.a = Append(@, path)], ret |-> "nil"]
         ELSE [acc |-> acc, ret |-> "nil"]

\* A walk function that passes over a description file without markup.
pageGenerationFnSkipUnpaired(root, path, info, err, acc) ==
    IF err THEN [acc |-> acc, ret |-> "err"]
    ELSE IF info.dir /\ info.name = S_support
         THEN [acc |-> acc, ret |-> "SkipDir"]
    ELSE IF HasSuffix(info.name, S_json)
         THEN LET parent == Dir(path)
                  base == TrimSuffix(info.name, S_json)
                  html == Join(<< parent, base \o S_html >>)
              IN  IF ~ StatOK(root, html)
                  THEN [acc |-> acc, ret |-> "nil"]
                  ELSE [acc |-> [a |-> Append(acc.a, path), b |-> Append(acc.b, html)],
                        ret |-> "nil"]
    ELSE [acc |-> acc, ret |-> "nil"]

\* A walk function that does not skip the support directories.
pageGenerationFnNoSkip(root, path, info, err, acc) ==
    IF err THEN [acc |-> acc, ret |-> "err"]
    ELSE IF HasSuffix(info.name, S_json)
         THEN LET parent == Dir(path)
                  base == TrimSuffix(info.name, S_json)
                  html == Join(<< parent, base \o S_html >>)
              IN  IF ~ StatOK(root, html)
                  THEN [acc |-> acc, ret |-> "nohtml"]
                  ELSE [acc |-> [a |-> Append(acc.a, path), b |-> Append(acc.b, html)],
                        ret |-> "nil"]
    ELSE [acc |-> acc, ret |-> "nil"]

\* The function literal of pageGeneration; acc.a is jsonFiles, acc.b is htmlFiles.
pageGenerationFn(root, path, info, err, acc) ==
    IF err THEN [acc |-> acc, ret |-> "err"]
    ELSE IF info.dir /\ info.name = S_support
         THEN [acc |-> acc, ret |-> "SkipDir"]
    ELSE IF HasSuffix(info.name, S_json)
         THEN LET parent == Dir(path)
                  base == TrimSuffix(info.name, S_json)
                  html == Join(<< parent, base \o S_html >>)
              IN  IF ~ StatOK(root, html)
                  THEN [acc |-> acc, ret |-> "nohtml"]
                  ELSE [acc |-> [a |-> Append(acc.a, path), b |-> Append(acc.b, html)],
                        ret |-> "nil"]
    ELSE [acc |-> acc, ret |-> "nil"]

\* The walk function of the walk named which.
WalkFn(which, root, path, info, err, acc) ==
    IF which = "iterateDirs" THEN iterateDirsFn(path, info, err, acc)
    ELSE pageGenerationFn(root, path, info, err, acc)

\* filepath.Walk's walk: the function is called for the entry, then for the
\* entries of a directory in the order of their names; a "SkipDir" from a
\* directory skips its entries, any other non-nil return ends the walk.
RECURSIVE walk(_, _, _, _, _)
RECURSIVE walkNames(_, _, _, _, _)
walk(which, root, path, node, acc) ==
    IF ~ node.dir THEN WalkFn(which, root, path, node, FALSE, acc)
    ELSE LET r == WalkFn(which, root, path, node, ~ node.readable, acc)
         IN  IF ~ node.readable \/ r.ret # "nil" THEN r
             ELSE walkNames(which, root, path, SortNodes(node.kids), r.acc)

walkNames(which, root, path, kids, acc) ==
    IF kids = << >> THEN [acc |-> acc, ret |-> "nil"]
    ELSE LET k == Head(kids)
             r == walk(which, root, Join(<< path, k.name >>), k, acc)
         IN  IF r.ret # "nil" /\ (~ k.dir \/ r.ret # "SkipDir") THEN r
             ELSE walkNames(which, root, path, Tail(kids), r.acc)

\* filepath.Walk(top, fn): a top that cannot be stat'ed is handed to the
\* function with the error.
Walk(which, root, top) ==
    LET acc0 == [a |-> << >>, b |-> << >>]
        node == Lookup(root, top)
        r == IF node = Missing
             THEN WalkFn(which, root, top, Missing, TRUE, acc0)
             ELSE walk(which, root, top, [node EXCEPT !.name = Base(top)], acc0)
    IN  IF r.ret = "SkipDir" THEN [r EXCEPT !.ret = "nil"] ELSE r

\* iterateDirs([]string{dir}): the .go paths under dir, or an error.
iterateDirs(root, dir) ==
    LET r == Walk("iterateDirs", root, dir)
    IN  IF r.ret # "nil" THEN [gofiles |-> << >>, err |-> TRUE]
        ELSE [gofiles |-> r.acc.a, err |-> FALSE]

\* hasMainFunc: parser.ParseFile fails on what is no readable, well-formed
\* source file; otherwise some top-level FuncDecl is named main.
hasMainFunc(root, path) ==
    LET node == Lookup(root, path)
    IN  IF node = Missing \/ node.dir \/ ~ node.readable \/ ~ node.src.ok
        THEN [hasMain |-> FALSE, err |-> TRUE]
        ELSE [hasMain |-> \E k \in 1..Len(node.src.decls) :
                              /\ node.src.decls[k].kind = "FuncDecl"
                              /\ node.src.decls[k].name = "main",
              err |-> FALSE]

(***************************************************************************)
(* The run.                                                                *)
(***************************************************************************)
\* The two revisions of package main.
Builds == { "main.go", "part_000" }

S_P == << "/", "p" >>
S_PSlash == << "/", "p", "/" >>

\* What the process is started with: GB_PROJECT_DIR (empty when unset) and
\* the executables that a bare invocation finds on the PATH and runs with
\* exit status 0.
Environments ==
    { [project |-> << >>, execs |-> { "gopherjs", "pagegen" }],
      [project |-> S_P, execs |-> { "gopherjs", "pagegen" }],
      [project |-> S_PSlash, execs |-> { "gopherjs", "pagegen" }],
      [project |-> S_P, execs |-> { "gopherjs" }],
      [project |-> S_P, execs |-> { "pagegen" }] }

PackageIDs == { N_a, N_b }

\* os.Args[1:]
ArgLists == UNION { [1..n -> PackageIDs] : n \in 0..MaxArgs }

\* Output files left by an earlier run, for package a.
StaleFiles ==
    { [path |-> Join(<< S_P, S_src, N_a, S_static, S_en, S_web, N_p_html >>),
       data |-> [kind |-> "stale", arg |-> 0, json |-> << >>]] }

(***************************************************************************)
(* Facts about the packages of the model, for the statements below.        *)
(***************************************************************************)
\* Some description file of a tree, outside every directory named support,
\* has no entry beside it with the same base name and the markup suffix.
RECURSIVE HasUnpaired(_)
HasUnpaired(node) ==
    \/ \E k \in node.kids :
           /\ HasSuffix(k.name, S_json)
           /\ ~ \E h \in node.kids : h.name = TrimSuffix(k.name, S_json) \o S_html
    \/ \E k \in node.kids : k.dir /\ k.name # S_support /\ HasUnpaired(k)

\* What the file system holds at the roots of a package.
PackageFacts(root, proj, arg) ==
    [hasEntryRoot |-> StatOK(root, constructClientPackagePath(proj, arg)),
     hasOutputRoot |-> StatOK(root, constructStaticEnglishPath(proj, arg)),
     hasPagesRoot |-> StatOK(root, constructPagesPath(proj, arg)),
     hasTemplateRoot |-> StatOK(root, constructTemplatesPath(proj, arg)),
     unpaired |-> /\ StatOK(root, constructTemplatesPath(proj, arg))
                  /\ HasUnpaired(Lookup(root, constructTemplatesPath(proj, arg)))]

VARIABLES
    build,      \* the revision that runs
    project,    \* os.Getenv("GB_PROJECT_DIR")
    execs,      \* the executables whose bare invocation succeeds
    args,       \* os.Args[1:]
    fsid,       \* which of FileSystems the run finds
    pc,         \* where main is
    i,          \* the index of the argument of the loop of main
    gofiles,    \* gopherjsCompilation: the result of iterateDirs
    g,          \* the index of the classification loop
    pages,      \* gopherjsCompilation: the gofiles that have a main
    c,          \* the index of the compile loop
    jsonFiles,  \* pageGeneration: the description files collected
    htmlFiles,  \* pageGeneration: their markup files
    j,          \* the index of the generator loop
    outFiles,   \* the files under the output roots that launchPagegen writes
    exit,       \* << >> while the process runs, << status >> once it has exited
    failure,    \* what made the process fail, "" if nothing has
    events,     \* what the process has done so far, in order
    facts       \* PackageFacts of every package, fixed when the run starts

vars ==
    << build, project, execs, args, fsid, pc, i, gofiles, g, pages, c, jsonFiles,
       htmlFiles, j, outFiles, exit, failure, events, facts >>

env == << build, project, execs, args, fsid, facts >>

\* The root directory of the file system.
fs == FileSystems[fsid]

locals == << gofiles, g, pages, c, jsonFiles, htmlFiles, j >>

Init ==
    /\ build \in Builds
    /\ \E e \in Environments : project = e.project /\ execs = e.execs
    /\ args \in ArgLists
    /\ fsid \in DOMAIN FileSystems
    /\ pc = "start"
    /\ i = 0
    /\ gofiles = << >> /\ g = 1
    /\ pages = << >> /\ c = 1
    /\ jsonFiles = << >> /\ htmlFiles = << >> /\ j = 1
    /\ outFiles = StaleFiles
    /\ exit = << >>
    /\ failure = ""
    /\ events = << >>
    /\ facts = [a \in PackageIDs |-> PackageFacts(FileSystems[fsid], project, a)]

Event(op, path, aux, out, ok) ==
    [op |-> op, arg |-> i, path |-> path, aux |-> aux, out |-> out, ok |-> ok]

\* os.Exit(status), or the end of a panic, for the reason given.
Exit(status, why) ==
    /\ pc' = "exited"
    /\ exit' = << status >>
    /\ failure' = why

FreshLocals ==
    /\ gofiles' = << >> /\ g' = 1
    /\ pages' = << >> /\ c' = 1
    /\ jsonFiles' = << >> /\ htmlFiles' = << >> /\ j' = 1

\* The end of the body of the loop over the arguments: the next argument, or
\* the return from main.
NextArgument ==
    /\ i' = i + 1
    /\ IF i < Len(args)
       THEN pc' = "validate" /\ UNCHANGED << exit, failure >>
       ELSE Exit(0, "")
    /\ FreshLocals

\* main: the sanity check of GB_PROJECT_DIR; a panic ends the process with
\* status 2.
CheckProjectDir ==
    /\ pc = "start"
    /\ IF project = << >>
       THEN /\ Exit(2, "environment")
            /\ events' = Append(events, Event("panic", << >>, << >>, << >>, FALSE))
       ELSE /\ pc' = "executables"
            /\ UNCHANGED << exit, failure, events >>
    /\ UNCHANGED << env, i, locals, outFiles >>

\* validateExecutablesInPath returns a nil error: gopherjs, then pagegen.
validateExecutablesInPath(found) == "gopherjs" \in found /\ "pagegen" \in found

\* validateGopherjsInPath (main.go) returns a nil error.
validateGopherjsInPath(found) == "gopherjs" \in found

\* A check of the executables that exits with status 0 when one is missing.
ValidateExecutablesExitZero ==
    /\ pc = "executables"
    /\ IF \/ build = "part_000" /\ validateExecutablesInPath(execs)
          \/ build = "main.go" /\ validateGopherjsInPath(execs)
       THEN pc' = "args" /\ UNCHANGED << exit, failure >>
       ELSE Exit(0, "executable")
    /\ UNCHANGED << env, i, locals, outFiles, events >>

ValidateExecutables ==
    /\ pc = "executables"
    /\ IF \/ build = "part_000" /\ validateExecutablesInPath(execs)
          \/ build = "main.go" /\ validateGopherjsInPath(execs)
       THEN pc' = "args" /\ UNCHANGED << exit, failure >>
       ELSE Exit(1, "executable")
    /\ UNCHANGED << env, i, locals, outFiles, events >>

\* A check of the arguments that treats an empty list as an error.
CheckArgsExitOne ==
    /\ pc = "args"
    /\ IF Len(args) = 0
       THEN /\ Exit(1, "usage")
            /\ events' = Append(events, Event("help", << >>, << >>, << >>, TRUE))
            /\ i' = i
       ELSE /\ pc' = "validate"
            /\ i' = 1
            /\ UNCHANGED << exit, failure, events >>
    /\ UNCHANGED << env, locals, outFiles >>

\* main: os.Args[1:]; no argument prints the help and exits with status 0.
CheckArgs ==
    /\ pc = "args"
    /\ IF Len(args) = 0
       THEN /\ Exit(0, "")
            /\ events' = Append(events, Event("help", << >>, << >>, << >>, TRUE))
            /\ i' = i
       ELSE /\ pc' = "validate"
            /\ i' = 1
            /\ UNCHANGED << exit, failure, events >>
    /\ UNCHANGED << env, locals, outFiles >>

\* The checks of the layout at the head of the loop body.
ValidateLayout(arg) ==
    IF build = "part_000" THEN validateProjectStructure(fs, project, arg)
    ELSE validateInMain(fs, project, arg)

\* A validation whose failure goes on with the next argument.
ValidateContinue ==
    /\ pc = "validate"
    /\ LET ok == ValidateLayout(args[i])
       IN  /\ events' = Append(events, Event("validate", << >>, << >>, << >>, ok))
           /\ IF ok
              THEN pc' = "scan" /\ UNCHANGED << exit, failure, i, locals >>
              ELSE NextArgument
    /\ UNCHANGED << env, outFiles >>

Validate ==
    /\ pc = "validate"
    /\ LET ok == ValidateLayout(args[i])
       IN  /\ events' = Append(events, Event("validate", << >>, << >>, << >>, ok))
           /\ IF ok THEN pc' = "scan" /\ UNCHANGED << exit, failure >>
              ELSE Exit(1, "validate")
    /\ UNCHANGED << env, i, locals, outFiles >>

\* gopherjsCompilation: gofiles, err := iterateDirs([]string{dir})
Scan ==
    /\ pc = "scan"
    /\ LET dir == constructClientPackagePath(project, args[i])
           r == iterateDirs(fs, dir)
       IN  /\ events' = Append(events, Event("scan", dir, << >>, << >>, ~ r.err))
           /\ IF r.err
              THEN Exit(1, "scan") /\ UNCHANGED gofiles
              ELSE /\ pc' = "classify"
                   /\ gofiles' = r.gofiles
                   /\ UNCHANGED << exit, failure >>
    /\ UNCHANGED << env, i, g, pages, c, jsonFiles, htmlFiles, j, outFiles >>

\* A classification that skips a file the parser rejects.
ClassifySkipMalformed ==
    /\ pc = "classify"
    /\ g <= Len(gofiles)
    /\ LET r == hasMainFunc(fs, gofiles[g])
       IN  /\ events' = Append(events,
                          Event("parse", gofiles[g], << >>, << >>, ~ r.err))
           /\ g' = g + 1
           /\ pages' = IF r.hasMain THEN Append(pages, gofiles[g]) ELSE pages
    /\ UNCHANGED << env, pc, exit, failure, i, gofiles, c, jsonFiles, htmlFiles, j,
                    outFiles >>

\* gopherjsCompilation: one turn of the loop that finds the gofiles with a main.
Classify ==
    /\ pc = "classify"
    /\ g <= Len(gofiles)
    /\ LET r == hasMainFunc(fs, gofiles[g])
       IN  /\ events' = Append(events,
                          Event("parse", gofiles[g], << >>, << >>, ~ r.err))
           /\ IF r.err
              THEN Exit(1, "parse") /\ UNCHANGED << g, pages >>
              ELSE /\ g' = g + 1
                   /\ pages' = IF r.hasMain THEN Append(pages, gofiles[g]) ELSE pages
                   /\ UNCHANGED << pc, exit, failure >>
    /\ UNCHANGED << env, i, gofiles, c, jsonFiles, htmlFiles, j, outFiles >>

\* An end of the classification that goes on to the page phase without
\* compiling.
ClassifyDoneSkipCompile ==
    /\ pc = "classify"
    /\ g > Len(gofiles)
    /\ pc' = "walk"
    /\ UNCHANGED << env, i, locals, outFiles, exit, failure, events >>

ClassifyDone ==
    /\ pc = "classify"
    /\ g > Len(gofiles)
    /\ pc' = "compile"
    /\ UNCHANGED << env, i, locals, outFiles, exit, failure, events >>

\* A target that keeps the file name of the page and drops its directories.
compileTargetFlat(proj, arg, page) ==
    Join(<< constructStaticEnglishPath(proj, arg), Base(page) >>)

\* gopherjsCompilation: the -o target of a page.
compileTarget(proj, arg, page) ==
    LET suffix == TrimPrefix(page, constructClientPackagePath(proj, arg))
    IN  Join(<< constructStaticEnglishPath(proj, arg), suffix >>)

\* What launchGopherjs may return: cmd.CombinedOutput's error is nil or not.
GopherjsResults == BOOLEAN

\* A compile loop that goes on after a compiler failure.
CompileIgnoreError ==
    /\ pc = "compile"
    /\ c <= Len(pages)
    /\ \E ok \in GopherjsResults :
           /\ events' = Append(events,
                  Event("compile", pages[c], << >>,
                        compileTarget(project, args[i], pages[c]), ok))
           /\ c' = c + 1
    /\ UNCHANGED << env, pc, exit, failure, i, gofiles, g, pages, jsonFiles,
                    htmlFiles, j, outFiles >>

\* gopherjsCompilation: one turn of the loop over pages.
Compile ==
    /\ pc = "compile"
    /\ c <= Len(pages)
    /\ LET page == pages[c]
           dir == constructClientPackagePath(project, args[i])
       IN  IF ~ HasPrefix(page, dir)
           THEN /\ Exit(2, "panic")
                /\ events' = Append(events, Event("panic", page, << >>, << >>, FALSE))
                /\ c' = c
           ELSE \E ok \in GopherjsResults :
                    /\ events' = Append(events,
                           Event("compile", page, << >>,
                                 compileTarget(project, args[i], page), ok))
                    /\ IF ok
                       THEN c' = c + 1 /\ UNCHANGED << pc, exit, failure >>
                       ELSE Exit(1, "compile") /\ c' = c
    /\ UNCHANGED << env, i, gofiles, g, pages, jsonFiles, htmlFiles, j, outFiles >>

\* An end of the compile loop that goes back to the classification loop.
CompileDoneClassifyAgain ==
    /\ pc = "compile"
    /\ c > Len(pages)
    /\ pc' = "classify"
    /\ UNCHANGED << env, i, locals, outFiles, exit, failure, events >>

\* The end of gopherjsCompilation: pageGeneration follows in part_000, the
\* next argument in main.go.
CompileDone ==
    /\ pc = "compile"
    /\ c > Len(pages)
    /\ IF build = "part_000"
       THEN /\ pc' = "walk"
            /\ UNCHANGED << i, locals, exit, failure >>
       ELSE NextArgument
    /\ UNCHANGED << env, outFiles, events >>

\* pageGeneration: the walk of the template tree.
PageWalk ==
    /\ pc = "walk"
    /\ LET templatePath == constructTemplatesPath(project, args[i])
           r == Walk("pageGeneration", fs, templatePath)
       IN  /\ events' = Append(events,
                          Event("walk", templatePath, << >>, << >>, r.ret = "nil"))
           /\ IF r.ret # "nil"
              THEN /\ Exit(1, IF r.ret = "nohtml" THEN "pairing" ELSE "walk")
                   /\ UNCHANGED << jsonFiles, htmlFiles >>
              ELSE /\ pc' = "paginate"
                   /\ jsonFiles' = r.acc.a
                   /\ htmlFiles' = r.acc.b
                   /\ UNCHANGED << exit, failure >>
    /\ UNCHANGED << env, i, gofiles, g, pages, c, j, outFiles >>

\* An output file that keeps the file name of the markup file and drops its
\* directories.
pageOutputFlat(proj, arg, htmlFile) ==
    Join(<< constructStaticEnglishPath(proj, arg), Base(htmlFile) >>)

\* pageGeneration: the output file of a markup file.
pageOutput(proj, arg, htmlFile) ==
    LET html == TrimPrefix(htmlFile, constructTemplatesPath(proj, arg))
    IN  Join(<< constructStaticEnglishPath(proj, arg), html >>)

\* What a run of pagegen and the copy of its output may come to: "ok", a
\* non-zero exit ("exit"), a process that cannot be started ("start"), a
\* failed write of the output ("copy").
PagegenResults == { "ok", "exit", "start", "copy" }

\* os.Create(path) returns a nil error: the directory of the path exists and
\* the path is no directory.
CreateOK(root, path) ==
    /\ Lookup(root, Dir(path)) # Missing
    /\ Lookup(root, Dir(path)).dir
    /\ ~ Lookup(root, path).dir

\* The files after path was created (or truncated) and data written to it.
WriteFile(files, path, data) ==
    { f \in files : f.path # path } \cup { [path |-> path, data |-> data] }

\* A generator loop that creates the output file before it runs the generator.
PaginateCreateFirst ==
    /\ pc = "paginate"
    /\ j <= Len(jsonFiles)
    /\ LET templatePath == constructTemplatesPath(project, args[i])
           jsonFile == jsonFiles[j]
           html == TrimPrefix(htmlFiles[j], templatePath)
           json == TrimPrefix(jsonFile, templatePath)
           out == pageOutput(project, args[i], htmlFiles[j])
       IN  IF ~ HasPrefix(jsonFile, templatePath)
           THEN /\ Exit(2, "panic")
                /\ events' = Append(events,
                       Event("panic", jsonFile, << >>, << >>, FALSE))
                /\ UNCHANGED << j, outFiles >>
           ELSE \E res \in PagegenResults :
                    LET ran == res \in { "ok", "copy" }
                        created == CreateOK(fs, out)
                        ok == ran /\ created /\ res = "ok"
                    IN  /\ events' = Append(events,
                               Event("generate", json, html, out, ok))
                        /\ outFiles' =
                               IF created
                               THEN WriteFile(outFiles, out,
                                        [kind |-> IF ok THEN "generated"
                                                  ELSE "partial",
                                         arg |-> i, json |-> json])
                               ELSE outFiles
                        /\ IF ok
                           THEN j' = j + 1 /\ UNCHANGED << pc, exit, failure >>
                           ELSE /\ Exit(1, IF ~ ran THEN "generate"
                                           ELSE IF ~ created THEN "create"
                                           ELSE "write")
                                /\ j' = j
    /\ UNCHANGED << env, i, gofiles, g, pages, c, jsonFiles, htmlFiles >>

\* pageGeneration: one turn of the loop over jsonFiles, launchPagegen included.
Paginate ==
    /\ pc = "paginate"
    /\ j <= Len(jsonFiles)
    /\ LET templatePath == constructTemplatesPath(project, args[i])
           jsonFile == jsonFiles[j]
           html == TrimPrefix(htmlFiles[j], templatePath)
           json == TrimPrefix(jsonFile, templatePath)
           out == pageOutput(project, args[i], htmlFiles[j])
       IN  IF ~ HasPrefix(jsonFile, templatePath)
           THEN /\ Exit(2, "panic")
                /\ events' = Append(events,
                       Event("panic", jsonFile, << >>, << >>, FALSE))
                /\ UNCHANGED << j, outFiles >>
           ELSE \E res \in PagegenResults :
                    LET ran == res \in { "ok", "copy" }
                        created == ran /\ CreateOK(fs, out)
                        ok == created /\ res = "ok"
                    IN  /\ events' = Append(events,
                               Event("generate", json, html, out, ok))
                        /\ outFiles' =
                               IF created
                               THEN WriteFile(outFiles, out,
                                        [kind |-> IF ok THEN "generated"
                                                  ELSE "partial",
                                         arg |-> i, json |-> json])
                               ELSE outFiles
                        /\ IF ok
                           THEN j' = j + 1 /\ UNCHANGED << pc, exit, failure >>
                           ELSE /\ Exit(1, IF ~ ran THEN "generate"
                                           ELSE IF ~ created THEN "create"
                                           ELSE "write")
                                /\ j' = j
    /\ UNCHANGED << env, i, gofiles, g, pages, c, jsonFiles, htmlFiles >>

\* The end of pageGeneration, and of the body of the loop of main.
PaginateDone ==
    /\ pc = "paginate"
    /\ j > Len(jsonFiles)
    /\ NextArgument
    /\ UNCHANGED << env, outFiles, events >>

Next ==
    \/ CheckProjectDir
    \/ ValidateExecutables
    \/ CheckArgs
    \/ Validate
    \/ Scan
    \/ Classify
    \/ ClassifyDone
    \/ Compile
    \/ CompileDone
    \/ PageWalk
    \/ Paginate
    \/ PaginateDone

Spec == Init /\ [][Next]_vars

\* Where control is: the statement of main and the indexes of the loops of
\* gopherjsCompilation and pageGeneration.
Position == << pc, g, c, j >>

\* The labels of pc.
Labels ==
    { "start", "executables", "args", "validate", "scan", "classify", "compile",
      "walk", "paginate", "exited" }

\* Control moves on.  Every step of Next is such a step, and one is possible
\* exactly while the process has not exited: each statement before the exit
\* can be executed, each loop has its next turn or its end.
Advance ==
    /\ pc # "exited"
    /\ pc' \in Labels
    /\ g' \in 1..(g + 1)
    /\ c' \in 1..(c + 1)
    /\ j' \in 1..(j + 1)

\* main is one sequential goroutine and every call it makes returns (the
\* external processes included): while the process has not exited, control
\* does not stay where it is for ever.
FairSpec == Spec /\ WF_Position(Advance)

(***************************************************************************)
(* The state of an argument in the state machine of the orchestrator.      *)
(***************************************************************************)
Failed == pc = "exited" /\ failure # ""

ArgState(k) ==
    IF k < i THEN "Done"
    ELSE IF k > i THEN "Pending"
    ELSE IF Failed THEN "Failed"
    ELSE IF pc = "validate" THEN "Validate"
    ELSE IF pc \in { "scan", "classify", "compile" } THEN "Compile"
    ELSE "Paginate"

ArgIndexes == 1..Len(args)

\* The operations on the package of an argument that follow its validation.
WorkOps == { "scan", "parse", "compile", "walk", "generate" }

\* The events of the argument with index k whose operation is in ops.
EventsOf(k, ops) ==
    { n \in 1..Len(events) : events[n].arg = k /\ events[n].op \in ops }

\* The facts about the package of the argument with index k.
Facts(k) == facts[args[k]]

EntryRoot(k) == constructClientPackagePath(project, args[k])
OutputRoot(k) == constructStaticEnglishPath(project, args[k])
TemplateRoot(k) == constructTemplatesPath(project, args[k])

\* A path has a directory named support above its last component.
UnderSupport(path) ==
    LET parts == Split(path)
    IN  \E n \in 1..(Len(parts) - 1) : parts[n] = S_support

(***************************************************************************)
(* C1.  As stated: for every argument, if the entry root, the output root  *)
(* or the template root is missing, the argument fails in Validate and     *)
(* nothing is scanned, compiled, walked or generated for it.  The code     *)
(* checks the pages directory, not the template root below it, so with     *)
(* pages/ present and pages/template absent the scan and the compiles run. *)
(***************************************************************************)
C1_MissingSubtreeNoWork ==
    build = "part_000" =>
        \A k \in ArgIndexes :
            (\/ ~ Facts(k).hasEntryRoot
             \/ ~ Facts(k).hasOutputRoot
             \/ ~ Facts(k).hasTemplateRoot)
            => EventsOf(k, WorkOps) = { }

\* What validation requires of the package of argument k.
RequiredMissing(k) ==
    \/ ~ Facts(k).hasEntryRoot
    \/ ~ Facts(k).hasOutputRoot
    \/ build = "part_000" /\ ~ Facts(k).hasPagesRoot

\* C1, amended: if the entry root, the output root or the pages directory of
\* an argument is missing, its validation fails, the argument goes from
\* Validate to Failed, and nothing is scanned, compiled, walked or generated
\* for it.
C1_MissingLayoutNoWork ==
    \A k \in ArgIndexes :
        RequiredMissing(k) =>
            /\ EventsOf(k, WorkOps) = { }
            /\ \A n \in EventsOf(k, { "validate" }) : ~ events[n].ok
            /\ ArgState(k) \in { "Pending", "Validate", "Failed" }
            /\ ArgState(k) = "Failed" => failure = "validate" /\ exit = << 1 >>

\* The pages directory of the current argument is missing, the rest is there,
\* and validation has failed.
C1_Witness ==
    /\ build = "part_000"
    /\ i \in ArgIndexes
    /\ ArgState(i) = "Failed"
    /\ failure = "validate"
    /\ Facts(i).hasEntryRoot /\ Facts(i).hasOutputRoot
    /\ ~ Facts(i).hasPagesRoot

(***************************************************************************)
(* C2.  In pageGeneration, a description file outside support without a    *)
(* markup file fails the page phase and no generator runs for any pair of  *)
(* that argument; every pair is validated (the walk is over) before the    *)
(* first generator runs.                                                   *)
(***************************************************************************)
C2_ValidateThenGenerate ==
    /\ \A k \in ArgIndexes :
           (build = "part_000" /\ Facts(k).unpaired)
           => /\ EventsOf(k, { "generate" }) = { }
              /\ ArgState(k) # "Done"
              /\ EventsOf(k, { "walk" }) # { } =>
                     ArgState(k) = "Failed" /\ failure \in { "pairing", "walk" }
    /\ \A n \in 1..Len(events) :
           events[n].op = "generate" =>
               /\ \E m \in 1..(n - 1) :
                      /\ events[m].op = "walk"
                      /\ events[m].arg = events[n].arg
                      /\ events[m].ok
               /\ \A m \in n..Len(events) :
                      events[m].arg = events[n].arg => events[m].op = "generate"

\* The walk met a pair and then an unpaired description file, and failed.
C2_Witness ==
    /\ Failed
    /\ failure = "pairing"
    /\ StatOK(fs, Join(<< TemplateRoot(i), N_a_json >>))
    /\ StatOK(fs, Join(<< TemplateRoot(i), N_a_html >>))
    /\ EventsOf(i, { "generate" }) = { }

(***************************************************************************)
(* C3.  No file under a directory named support, at any depth, is ever     *)
(* among the collected pairs or handed to the generator, and an unpaired   *)
(* description file in such a directory never fails the pairing.           *)
(***************************************************************************)
C3_SupportExcluded ==
    /\ \A n \in 1..Len(jsonFiles) :
           ~ UnderSupport(jsonFiles[n]) /\ ~ UnderSupport(htmlFiles[n])
    /\ \A n \in 1..Len(events) :
           events[n].op = "generate" =>
               /\ ~ UnderSupport(events[n].path)
               /\ ~ UnderSupport(events[n].aux)
               /\ ~ UnderSupport(events[n].out)
    /\ failure = "pairing" => Facts(i).unpaired

\* Every pair of a tree whose support directories hold a pair and an unpaired
\* description file has been generated, and the argument is done.
C3_Witness ==
    /\ i > 1
    /\ ArgState(1) = "Done"
    /\ EventsOf(1, { "generate" }) # { }
    /\ \E s \in { Join(<< TemplateRoot(1), S_support, N_s_json >>),
                  Join(<< TemplateRoot(1), N_x, S_support, N_s_json >>) } :
           StatOK(fs, s)

(***************************************************************************)
(* C4.  The output path handed to the compiler for an entry point e is     *)
(* OutputRoot followed by e without its EntryRoot prefix (the same         *)
(* relative directories and file name), and stripping OutputRoot from it   *)
(* and joining the rest to EntryRoot gives e again.                        *)
(***************************************************************************)
C4_OutputPathMirrors ==
    \A n \in 1..Len(events) :
        events[n].op = "compile" =>
            LET e == events[n].path
                out == events[n].out
                k == events[n].arg
            IN  /\ HasPrefix(e, EntryRoot(k))
                /\ out = OutputRoot(k) \o TrimPrefix(e, EntryRoot(k))
                /\ Split(TrimPrefix(out, OutputRoot(k))) =
                       Split(TrimPrefix(e, EntryRoot(k)))
                /\ Join(<< EntryRoot(k), TrimPrefix(out, OutputRoot(k)) >>) = e

\* An entry point in a subdirectory was compiled in a run whose project
\* directory was given with a trailing separator.
C4_Witness ==
    /\ project = S_PSlash
    /\ \E n \in 1..Len(events) :
           /\ events[n].op = "compile"
           /\ Len(Split(TrimPrefix(events[n].path, EntryRoot(events[n].arg)))) > 2

(***************************************************************************)
(* C5.  A source file is classified as an entry point if and only if one   *)
(* of its top-level declarations is a function named exactly main that is  *)
(* no method; a file whose only declaration named main is a method is no   *)
(* entry point.                                                            *)
(***************************************************************************)
\* The declarations of a source file hold a top-level function main without
\* a receiver.
DeclaresMainFunction(node) ==
    \E k \in 1..Len(node.src.decls) :
        /\ node.src.decls[k].kind = "FuncDecl"
        /\ node.src.decls[k].name = "main"
        /\ ~ node.src.decls[k].recv

C5_EntryPointIffMainFunction ==
    pc \in { "classify", "compile" } =>
        \A k \in 1..(g - 1) :
            (\E n \in 1..Len(pages) : pages[n] = gofiles[k])
            <=> DeclaresMainFunction(Lookup(fs, gofiles[k]))

(***************************************************************************)
(* C6.  Every failure ends the run: once an argument has failed the        *)
(* process has exited, and nothing is validated, compiled or generated for *)
(* a later argument.                                                       *)
(***************************************************************************)
C6_FailureEndsRun ==
    /\ failure # "" => pc = "exited" /\ exit # << 0 >>
    /\ \A n \in 1..Len(events) :
           /\ events[n].arg <= i
           /\ ~ events[n].ok => n = Len(events) /\ Failed
    /\ Failed => \A k \in ArgIndexes : k > i => EventsOf(k, WorkOps \cup { "validate" }) = { }

\* An argument has failed and a later argument was never touched.
C6_Witness ==
    /\ Failed
    /\ i \in ArgIndexes
    /\ i < Len(args)
    /\ failure \in { "validate", "scan", "parse", "compile", "pairing", "generate" }

(***************************************************************************)
(* C7.  Within one argument the compiler runs at most once per entry       *)
(* point, in the order of discovery, and not at all after its first        *)
(* non-zero exit.                                                          *)
(***************************************************************************)
\* The sources handed to the compiler for argument k, in order.
CompiledOf(k) ==
    LET IsCompile(e) == e.op = "compile" /\ e.arg = k
        sel == SelectSeq(events, IsCompile)
    IN  [n \in 1..Len(sel) |-> sel[n].path]

\* The position of a path in the list of source files of the scan.
ScanIndex(path) == CHOOSE n \in 1..Len(gofiles) : gofiles[n] = path

C7_CompileOnceInOrder ==
    /\ \A n1, n2 \in 1..Len(events) :
           (/\ n1 < n2
            /\ events[n1].op = "compile" /\ events[n2].op = "compile"
            /\ events[n1].arg = events[n2].arg)
           => events[n1].path # events[n2].path /\ events[n1].ok
    /\ (pc = "compile" \/ failure = "compile") =>
           /\ CompiledOf(i) =
                  SubSeq(pages, 1, IF failure = "compile" THEN c ELSE c - 1)
           /\ \A n \in 1..Len(pages) : \E m \in 1..Len(gofiles) : gofiles[m] = pages[n]
           /\ \A n1, n2 \in 1..Len(pages) :
                  n1 < n2 => ScanIndex(pages[n1]) < ScanIndex(pages[n2])

\* Two entry points of one argument were compiled, the second one failing.
C7_Witness ==
    /\ failure = "compile"
    /\ Len(CompiledOf(i)) = 2

(***************************************************************************)
(* C8.  As stated: the exit status is 0 when every argument is done, and   *)
(* exactly 1 for every failure, an unset project-root variable included.   *)
(* The code panics on the unset variable, which ends a Go process with     *)
(* status 2.                                                               *)
(***************************************************************************)
C8_ExitOneOnEveryFailure ==
    pc = "exited" =>
        /\ failure = "" => exit = << 0 >>
        /\ failure # "" => exit = << 1 >>

\* The failures that end the run through os.Exit(1).
ExitOneFailures ==
    { "executable", "validate", "scan", "parse", "compile", "pairing", "walk",
      "generate", "create", "write" }

\* C8, amended: the exit status is 0 when every argument is done; it is 1 for
\* a validation, scan, parse, pairing or subprocess failure and for a missing
\* executable; for an unset project-root variable the process panics and the
\* status is 2.
C8_ExitStatus ==
    /\ pc = "exited" <=> exit # << >>
    /\ pc = "exited" =>
           /\ (Len(args) > 0 /\ \A k \in ArgIndexes : ArgState(k) = "Done")
                  => exit = << 0 >>
           /\ failure = "" <=> exit = << 0 >>
           /\ failure \in ExitOneFailures <=> exit = << 1 >>
           /\ failure = "environment" <=> (project = << >> /\ exit = << 2 >>)

\* The project-root variable is unset and the process has ended with status 2.
C8_Witness ==
    /\ pc = "exited"
    /\ project = << >>
    /\ exit = << 2 >>

(***************************************************************************)
(* C9.  As stated: with the project-root variable set and no package       *)
(* identifier, the process prints the help, exits with status 0 and        *)
(* validates, compiles and generates nothing.  The code runs the required  *)
(* executables before it looks at the arguments, and exits with status 1   *)
(* without the help when one of them fails.                                *)
(***************************************************************************)
C9_NoArgsHelp ==
    (project # << >> /\ Len(args) = 0 /\ pc = "exited") =>
        /\ exit = << 0 >>
        /\ \E n \in 1..Len(events) : events[n].op = "help"
        /\ \A n \in 1..Len(events) : events[n].op \notin WorkOps \cup { "validate" }

\* The executables the revision that runs requires.
RequiredExecutables ==
    IF build = "part_000" THEN { "gopherjs", "pagegen" } ELSE { "gopherjs" }

\* C9, amended: with the project-root variable set, the required executables
\* found and running, and no package identifier, the process prints the help,
\* exits with status 0 and validates, compiles and generates nothing.
C9_NoArgsHelpWhenExecutablesRun ==
    /\ Len(args) = 0 =>
           \A n \in 1..Len(events) : events[n].op \notin WorkOps \cup { "validate" }
    /\ (/\ project # << >>
        /\ RequiredExecutables \subseteq execs
        /\ Len(args) = 0
        /\ pc = "exited")
       => /\ exit = << 0 >>
          /\ failure = ""
          /\ Len(events) = 1
          /\ events[1].op = "help"

\* The help was printed and the process has exited with status 0.
C9_Witness ==
    /\ pc = "exited"
    /\ Len(args) = 0
    /\ project # << >>
    /\ exit = << 0 >>
    /\ Len(events) = 1 /\ events[1].op = "help"

(***************************************************************************)
(* C10.  Within one argument two entry points never get the same compiler  *)
(* output path and two template pairs never get the same output file.      *)
(***************************************************************************)
C10_OutputsInjective ==
    /\ pc = "compile" =>
           \A n1, n2 \in 1..Len(pages) :
               pages[n1] # pages[n2] =>
                   compileTarget(project, args[i], pages[n1])
                       # compileTarget(project, args[i], pages[n2])
    /\ pc = "paginate" =>
           \A n1, n2 \in 1..Len(jsonFiles) :
               n1 # n2 =>
                   /\ jsonFiles[n1] # jsonFiles[n2]
                   /\ htmlFiles[n1] # htmlFiles[n2]
                   /\ pageOutput(project, args[i], htmlFiles[n1])
                          # pageOutput(project, args[i], htmlFiles[n2])
    /\ \A n1, n2 \in 1..Len(events) :
           (/\ n1 # n2
            /\ events[n1].arg = events[n2].arg
            /\ events[n1].op = events[n2].op
            /\ events[n1].op \in { "compile", "generate" })
           => events[n1].out # events[n2].out

\* Two entry points with the same file name were compiled and two pairs with
\* the same base name were generated for one argument.
C10_Witness ==
    \E k \in ArgIndexes :
        /\ Cardinality(EventsOf(k, { "compile" })) >= 2
        /\ Cardinality(EventsOf(k, { "generate" })) >= 2

(***************************************************************************)
(* C11.  Every source path of the scan has the entry root as a string      *)
(* prefix and every description path of the template walk has the template *)
(* root as a string prefix, so neither loop ever reaches its panic: the    *)
(* only panic of a run is the one on the unset project-root variable.      *)
(* The loops test the prefix before they use a path, so a path without it  *)
(* ends the run and is never compiled or generated.                        *)
(***************************************************************************)
C11_PrefixContainment ==
    /\ i \in ArgIndexes =>
           /\ \A n \in 1..Len(gofiles) : HasPrefix(gofiles[n], EntryRoot(i))
           /\ \A n \in 1..Len(pages) : HasPrefix(pages[n], EntryRoot(i))
           /\ \A n \in 1..Len(jsonFiles) : HasPrefix(jsonFiles[n], TemplateRoot(i))
           /\ \A n \in 1..Len(htmlFiles) : HasPrefix(htmlFiles[n], TemplateRoot(i))
    /\ failure # "panic"
    /\ \A n \in 1..Len(events) :
           /\ events[n].op = "panic" => events[n].path = << >> /\ project = << >>
           /\ events[n].op = "compile" =>
                  HasPrefix(events[n].path, EntryRoot(events[n].arg))

\* A project directory given with a trailing separator: the scan found a
\* source file in a subdirectory, an entry point was compiled and the
\* template walk collected a description file of a subdirectory.
C11_Witness ==
    /\ project = S_PSlash
    /\ pc = "paginate"
    /\ \E n \in 1..Len(jsonFiles) :
           jsonFiles[n] = Join(<< TemplateRoot(i), N_x, N_p_json >>)
    /\ \E n \in 1..Len(events) :
           /\ events[n].op = "compile" /\ events[n].arg = i
           /\ events[n].path = Join(<< EntryRoot(i), N_d, N_m_go >>)

(***************************************************************************)
(* C12.  The arguments are processed one at a time, in order, each through *)
(* Validate, Compile, Paginate and Done: the operations of one argument    *)
(* come in that order, the generator runs for an argument only after every *)
(* entry point of it was compiled successfully, and nothing is done for an *)
(* argument before every earlier argument is done.  (The revision of       *)
(* main.go has no page phase: its arguments are done after Compile.)       *)
(***************************************************************************)
\* The place of an operation in the processing of one argument.
PhaseOf(op) ==
    CASE op = "validate" -> 1
      [] op = "scan" -> 2
      [] op = "parse" -> 3
      [] op = "compile" -> 4
      [] op = "walk" -> 5
      [] op = "generate" -> 6
      [] OTHER -> 0

\* The events show that the argument with index k went through every phase
\* without a failure.
Completed(k) ==
    /\ \A n \in EventsOf(k, WorkOps \cup { "validate" }) : events[n].ok
    /\ EventsOf(k, { "validate" }) # { }
    /\ EventsOf(k, { "scan" }) # { }
    /\ build = "part_000" => EventsOf(k, { "walk" }) # { }

C12_ArgumentOrder ==
    /\ \A n \in 1..(Len(events) - 1) :
           \/ events[n].arg < events[n + 1].arg
           \/ /\ events[n].arg = events[n + 1].arg
              /\ PhaseOf(events[n].op) <= PhaseOf(events[n + 1].op)
    /\ \A n \in 1..Len(events) :
           /\ events[n].arg <= i
           /\ events[n].arg >= 1 => PhaseOf(events[n].op) >= 1
    /\ \A k \in ArgIndexes :
           /\ k < i => Completed(k)
           /\ EventsOf(k, WorkOps \cup { "validate" }) # { } =>
                  \A k2 \in 1..(k - 1) : Completed(k2)
           /\ EventsOf(k, { "generate" }) # { } =>
                  /\ EventsOf(k, { "walk" }) # { }
                  /\ \A n \in EventsOf(k, { "compile", "walk" }) : events[n].ok
    /\ (i \in ArgIndexes /\ EventsOf(i, { "walk", "generate" }) # { }) =>
           /\ CompiledOf(i) = pages
           /\ Cardinality(EventsOf(i, { "parse" })) = Len(gofiles)
           /\ \A n \in EventsOf(i, { "compile" }) : events[n].ok
    /\ pc \in { "scan", "classify", "compile" } =>
           EventsOf(i, { "walk", "generate" }) = { }
    /\ pc = "validate" => EventsOf(i, WorkOps \cup { "validate" }) = { }

\* The generator runs for the second argument, after two entry points and
\* two pairs of the first.
C12_Witness ==
    /\ i = 2
    /\ EventsOf(2, { "generate" }) # { }
    /\ EventsOf(2, { "compile" }) # { }
    /\ Cardinality(EventsOf(1, { "compile" })) = 2
    /\ Cardinality(EventsOf(1, { "generate" })) = 2

(***************************************************************************)
(* C13.  When the generator fails for the k-th pair of an argument, the    *)
(* step leaves every output file as it was (the file of the pair is        *)
(* neither created nor truncated), the run ends without another pair being *)
(* dispatched, the files of the pairs before k are as the generator wrote  *)
(* them, and the files of the pair k and of the later pairs were not       *)
(* written for this argument.                                              *)
(***************************************************************************)
\* The output file written for the n-th pair of the current argument.
WrittenFile(n) ==
    [path |-> pageOutput(project, args[i], htmlFiles[n]),
     data |-> [kind |-> "generated", arg |-> i,
               json |-> TrimPrefix(jsonFiles[n], TemplateRoot(i))]]

GeneratorFailed == failure = "generate"

C13_GeneratorFailureFrame ==
    /\ [](GeneratorFailed =>
             /\ pc = "exited"
             /\ Cardinality(EventsOf(i, { "generate" })) = j
             /\ \A n \in 1..(j - 1) : WrittenFile(n) \in outFiles
             /\ \A n \in j..Len(jsonFiles) : \A f \in outFiles :
                    f.path = WrittenFile(n).path => f.data.arg # i)
    /\ [][(GeneratorFailed' /\ ~ GeneratorFailed) => outFiles' = outFiles]_vars
    /\ [][GeneratorFailed => (outFiles' = outFiles /\ events' = events)]_vars

\* The generator failed for the second of two pairs of the package that has
\* a file from an earlier run at the output of its first pair.
C13_Witness ==
    /\ GeneratorFailed
    /\ j = 2
    /\ Len(jsonFiles) = 2
    /\ WrittenFile(1) \in outFiles
    /\ \E f \in StaleFiles : f.path = WrittenFile(1).path

(***************************************************************************)
(* C14.  If the walk of the entry root fails, or a source file under it    *)
(* fails to parse, the compiler is not invoked for any entry point of that *)
(* argument, also not for those classified before the failing file: every  *)
(* source file of the scan is classified before the first compile.         *)
(***************************************************************************)
C14_ClassifyBeforeCompile ==
    /\ \A k \in ArgIndexes :
           (\E n \in EventsOf(k, { "scan", "parse" }) : ~ events[n].ok) =>
               EventsOf(k, { "compile" }) = { }
    /\ failure \in { "scan", "parse" } =>
           /\ EventsOf(i, { "compile" }) = { }
           /\ pc = "exited"
    /\ \A n \in 1..Len(events) :
           events[n].op = "compile" =>
               \A m \in EventsOf(events[n].arg, { "scan", "parse" }) :
                   m < n /\ events[m].ok
    /\ (i \in ArgIndexes /\ EventsOf(i, { "compile" }) # { }) =>
           /\ g > Len(gofiles)
           /\ \A m \in 1..Len(gofiles) :
                  \E n \in EventsOf(i, { "parse" }) : events[n].path = gofiles[m]

\* The parser rejected z.go after two entry points had been classified.
C14_Witness ==
    /\ failure = "parse"
    /\ Len(pages) = 2
    /\ events[Len(events)].op = "parse"
    /\ events[Len(events)].path = Join(<< EntryRoot(i), N_z_go >>)
    /\ EventsOf(i, { "compile" }) = { }

(***************************************************************************)
(* C15.  As stated: only regular files are classified; a directory whose   *)
(* name ends in .go is never handed to the parser and never makes the      *)
(* processing of its argument fail.  iterateDirs tests the suffix of the   *)
(* name only, so the directory is collected, the parser is called on it    *)
(* and its error ends the run.                                             *)
(***************************************************************************)
C15_OnlyRegularFilesClassified ==
    /\ i \in ArgIndexes =>
           \A n \in 1..Len(gofiles) : ~ Lookup(fs, gofiles[n]).dir
    /\ \A n \in 1..Len(events) :
           events[n].op = "parse" => ~ Lookup(fs, events[n].path).dir

(***************************************************************************)
(* C16.  With external processes that return, and finite arguments and     *)
(* trees, every run terminates: the process exits, either with every       *)
(* argument done or at the first failed argument, the earlier arguments    *)
(* done and the later ones untouched; and every step of the run moves      *)
(* control (no step leaves the process where it was).                      *)
(***************************************************************************)
Terminated ==
    /\ pc = "exited"
    /\ exit # << >>
    /\ IF failure = ""
       THEN \A k \in ArgIndexes : ArgState(k) = "Done"
       ELSE \A k \in ArgIndexes :
                ArgState(k) = IF k < i THEN "Done"
                              ELSE IF k = i THEN "Failed"
                              ELSE "Pending"

C16_Terminates ==
    /\ <>[]Terminated
    /\ [][Position' # Position]_vars

\* The run has ended with two arguments done, entry points compiled and
\* pages generated for both.
C16_Witness ==
    /\ Terminated
    /\ failure = ""
    /\ Len(args) = 2
    /\ \A k \in ArgIndexes : EventsOf(k, { "compile" }) # { }
    /\ \A k \in ArgIndexes : EventsOf(k, { "generate" }) # { }

====
